---- MODULE Spec2Model ----
(***************************************************************************)
(* Order service of the sale-order dashboard (src/api/index.ts).           *)
(*                                                                         *)
(* The state is the three module-level arrays the service works on         *)
(* (mockCustomers, mockProducts, mockSaleOrders), the wall clock read by   *)
(* `new Date()`, and lastOp, the observation of the last call: which       *)
(* operation ran, with which identifiers, the error it threw and the value *)
(* it returned.  Each api operation is one action: JavaScript runs the     *)
(* code after `await delay(500)` to completion without interleaving.       *)
(*                                                                         *)
(* Three specifications share the state.  Spec calls the operations one at  *)
(* a time.  Concurrent has a caller make up to MaxCalls calls without       *)
(* awaiting them, each parked in its delay until it resumes.  Presentation  *)
(* drives the api through the Dashboard component only (the order form,    *)
(* the Edit and Mark as Paid buttons of the table, the orders query).      *)
(*                                                                         *)
(* Timestamps are kept as the millisecond count of the clock;              *)
(* toISOString prints that count with millisecond precision and            *)
(* `new Date(s).getTime()` reads the same count back.                      *)
(***************************************************************************)
EXTENDS Integers, Sequences, FiniteSets, TLC

\* ------------------------------------------------------------------ bounds
MaxOrders == 2
MaxItems == 2
MaxClock == 1
MaxCalls == 2
MaxMutations == 3

\* ------------------------------------------------------------ input domains
\* Customer 2 is seeded, customer 9 is not; SKU 21 is in the catalog, SKU 99
\* is not.
CustomerIds == {2, 9}

Items ==
    { [sku_id |-> 21, price |-> 3, quantity |-> 2],
      [sku_id |-> 99, price |-> 2, quantity |-> 1] }

RECURSIVE SeqsUpTo(_, _)
SeqsUpTo(S, n) ==
    IF n = 0 THEN {<<>>}
    ELSE LET shorter == SeqsUpTo(S, n - 1)
         IN  shorter \cup {Append(s, x) : s \in {t \in shorter : Len(t) = n - 1}, x \in S}

ItemLists == SeqsUpTo(Items, MaxItems)

InvoiceNos == {"INV-1"}
InvoiceDates == {"2024-01-01"}
OrderIds == 1..MaxOrders
Statuses == {"active", "completed"}

\* ------------------------------------------------------------------- state
VARIABLES mockCustomers, mockProducts, mockSaleOrders, now, lastOp

\* The callers of the service.  inFlight holds the calls that are inside
\* `await delay(500)`, issued counts the calls made so far, resumed is the call
\* the last step took out of its delay, and dashboard is the state of the
\* Dashboard component.  Spec, the service called one operation at a time,
\* leaves the four as they start.
VARIABLES inFlight, issued, resumed, dashboard

callers == <<inFlight, issued, resumed, dashboard>>

vars == <<mockCustomers, mockProducts, mockSaleOrders, now, lastOp, callers>>

\* ------------------------------------------------------------- seeded data
SeedCustomers ==
    << [id |-> 1, name |-> "Alice"],
       [id |-> 2, name |-> "Bob"] >>

SeedProducts ==
    << [id |-> 1, name |-> "Widget",
        sku |-> << [id |-> 10, quantity_in_inventory |-> 5] >>],
       [id |-> 2, name |-> "Gadget",
        sku |-> << [id |-> 20, quantity_in_inventory |-> 4],
                   [id |-> 21, quantity_in_inventory |-> 3] >>] >>

\* ----------------------------------------------------------------- helpers
\* The first index of a sequence among those a find or findIndex predicate
\* accepts, 1-based; 0 stands for JavaScript's -1 (and for find's undefined).
FirstIndex(indices) ==
    IF indices = {} THEN 0
    ELSE CHOOSE i \in indices : \A j \in indices : i <= j

HasSku(p, sku_id) == \E k \in 1..Len(p.sku) : p.sku[k].id = sku_id

\* mockCustomers.find(c => c.customer_profile.id === customer_id)
FindCustomer(customers, customer_id) ==
    FirstIndex({i \in 1..Len(customers) : customers[i].id = customer_id})

\* mockProducts.findIndex(p => p.sku.some(sku => sku.id === sku_id))
FindProductIndex(products, sku_id) ==
    FirstIndex({i \in 1..Len(products) : HasSku(products[i], sku_id)})

\* product.sku.findIndex(sku => sku.id === sku_id)
FindSkuIndex(product, sku_id) ==
    FirstIndex({i \in 1..Len(product.sku) : product.sku[i].id = sku_id})

\* Math.max(0, ...ids)
RECURSIVE MaxId(_)
MaxId(orders) ==
    IF orders = <<>> THEN 0
    ELSE LET rest == MaxId(Tail(orders))
         IN  IF Head(orders).id > rest THEN Head(orders).id ELSE rest

\* Math.max(0, ...ids) without the + 1.
NextIdNoIncrement(orders) == MaxId(orders)

NextId(orders) == MaxId(orders) + 1

\* The lookup without the fallback: an unresolved SKU gets no name.
ProductNameNoFallback(products, sku_id) ==
    LET productIndex == FindProductIndex(products, sku_id)
    IN  IF productIndex = 0 THEN "" ELSE products[productIndex].name

\* product?.name || "Unknown Product"
ProductName(products, sku_id) ==
    LET productIndex == FindProductIndex(products, sku_id)
    IN  IF productIndex = 0 \/ products[productIndex].name = ""
        THEN "Unknown Product"
        ELSE products[productIndex].name

\* orderData.items.map(item => ({...item, product_name: ...}))
ResolveItems(products, items) ==
    [k \in 1..Len(items) |->
        [sku_id |-> items[k].sku_id,
         price |-> items[k].price,
         quantity |-> items[k].quantity,
         product_name |-> ProductName(products, items[k].sku_id)]]

\* The reduce with the quantity left out of the line total.
RECURSIVE TotalPriceNoQuantity(_)
TotalPriceNoQuantity(items) ==
    IF items = <<>> THEN 0
    ELSE LET n == Len(items)
         IN  TotalPriceNoQuantity(SubSeq(items, 1, n - 1)) + items[n].price

\* items.reduce((sum, item) => sum + item.price * item.quantity, 0)
RECURSIVE TotalPrice(_)
TotalPrice(items) ==
    IF items = <<>> THEN 0
    ELSE LET n == Len(items)
         IN  TotalPrice(SubSeq(items, 1, n - 1)) + items[n].price * items[n].quantity

\* The pass with the SKU taken at the head of its product's list.
DecrementSkuFirstOfProduct(products, item) ==
    LET productIndex == FindProductIndex(products, item.sku_id)
    IN  IF productIndex = 0 THEN products
        ELSE [products EXCEPT
                ![productIndex].sku[1].quantity_in_inventory = @ - item.quantity]

\* The pass that stops at an empty shelf.
DecrementSkuClamped(products, item) ==
    LET productIndex == FindProductIndex(products, item.sku_id)
    IN  IF productIndex = 0 THEN products
        ELSE LET skuIndex == FindSkuIndex(products[productIndex], item.sku_id)
             IN  IF skuIndex = 0 THEN products
                 ELSE [products EXCEPT
                         ![productIndex].sku[skuIndex].quantity_in_inventory =
                             IF @ - item.quantity < 0 THEN 0
                             ELSE @ - item.quantity]

\* One pass of the inventory loop: quantity_in_inventory -= item.quantity.
DecrementSku(products, item) ==
    LET productIndex == FindProductIndex(products, item.sku_id)
    IN  IF productIndex = 0 THEN products
        ELSE LET skuIndex == FindSkuIndex(products[productIndex], item.sku_id)
             IN  IF skuIndex = 0 THEN products
                 ELSE [products EXCEPT
                         ![productIndex].sku[skuIndex].quantity_in_inventory =
                             @ - item.quantity]

\* orderData.items.forEach(item => ...)
RECURSIVE UpdateInventory(_, _)
UpdateInventory(products, items) ==
    IF items = <<>> THEN products
    ELSE UpdateInventory(DecrementSku(products, Head(items)), Tail(items))

\* The filter with the active branch keeping every order.
FilterByStatusActiveKeepsAll(orders, status) ==
    LET Keep(o) == IF status = "completed" THEN o.paid ELSE TRUE
    IN  SelectSeq(orders, Keep)

\* .filter(order => status === "completed" ? order.paid : !order.paid)
FilterByStatus(orders, status) ==
    LET Keep(o) == IF status = "completed" THEN o.paid ELSE ~o.paid
    IN  SelectSeq(orders, Keep)

\* The comparator with its operands exchanged: oldest first.
CompareAscending(a, b) == a.last_modified - b.last_modified

\* The comparator of the listing: b.last_modified - a.last_modified.
Compare(a, b) == b.last_modified - a.last_modified

\* Array.prototype.sort is stable: x goes behind every element that the
\* comparator does not place after it.
RECURSIVE InsertSorted(_, _)
InsertSorted(sorted, x) ==
    IF sorted = <<>> THEN <<x>>
    ELSE IF Compare(Head(sorted), x) <= 0
         THEN <<Head(sorted)>> \o InsertSorted(Tail(sorted), x)
         ELSE <<x>> \o sorted

RECURSIVE SortOrders(_)
SortOrders(orders) ==
    IF orders = <<>> THEN <<>>
    ELSE LET n == Len(orders)
         IN  InsertSorted(SortOrders(SubSeq(orders, 1, n - 1)), orders[n])

Listing(orders, status) == SortOrders(FilterByStatus(orders, status))

\* The order literal of createSaleOrder.
NewOrder(orders, customers, products, customer_id, items, paid, invoice_no, invoice_date, t_created, t_modified) ==
    [id |-> NextId(orders),
     customer_id |-> customer_id,
     customer_name |-> customers[FindCustomer(customers, customer_id)].name,
     items |-> ResolveItems(products, items),
     paid |-> paid,
     invoice_no |-> invoice_no,
     invoice_date |-> invoice_date,
     created_at |-> t_created,
     last_modified |-> t_modified,
     total_price |-> TotalPrice(items)]

\* The literal with created_at stamped again, as createSaleOrder stamps it.
UpdatedOrderStampsCreatedAt(old, customers, products, customer_id, items, paid, invoice_no, invoice_date, t) ==
    [old EXCEPT
        !.customer_id = customer_id,
        !.customer_name = customers[FindCustomer(customers, customer_id)].name,
        !.items = ResolveItems(products, items),
        !.paid = paid,
        !.invoice_no = invoice_no,
        !.invoice_date = invoice_date,
        !.created_at = t,
        !.last_modified = t,
        !.total_price = TotalPrice(items)]

\* The literal that never takes the paid flag back.
UpdatedOrderKeepsPaid(old, customers, products, customer_id, items, paid, invoice_no, invoice_date, t) ==
    [old EXCEPT
        !.customer_id = customer_id,
        !.customer_name = customers[FindCustomer(customers, customer_id)].name,
        !.items = ResolveItems(products, items),
        !.paid = @ \/ paid,
        !.invoice_no = invoice_no,
        !.invoice_date = invoice_date,
        !.last_modified = t,
        !.total_price = TotalPrice(items)]

\* The order literal of updateSaleOrder: the stored order with the form's
\* fields written over it.
UpdatedOrder(old, customers, products, customer_id, items, paid, invoice_no, invoice_date, t) ==
    [old EXCEPT
        !.customer_id = customer_id,
        !.customer_name = customers[FindCustomer(customers, customer_id)].name,
        !.items = ResolveItems(products, items),
        !.paid = paid,
        !.invoice_no = invoice_no,
        !.invoice_date = invoice_date,
        !.last_modified = t,
        !.total_price = TotalPrice(items)]

\* The literal with the flag flipped instead of set.
PaidOrderToggles(old, t) == [old EXCEPT !.paid = ~@, !.last_modified = t]

\* The literal that leaves last_modified as it finds it.
PaidOrderKeepsStamp(old, t) == [old EXCEPT !.paid = TRUE]

\* The order literal of markOrderAsPaid.
PaidOrder(old, t) == [old EXCEPT !.paid = TRUE, !.last_modified = t]

\* mockSaleOrders.findIndex(order => order.id === id)
FindOrderIndex(orders, id) ==
    FirstIndex({i \in 1..Len(orders) : orders[i].id = id})

\* What the caller of the last operation saw: the operation, the order id and
\* the customer_id it was called with (0 when it takes none; a successful
\* createSaleOrder shows the id it assigned), the error thrown ("none" when it
\* returned) and, for a listing, the status asked for and the sequence
\* returned.
Observed(op, id, customer_id, status, error, result) ==
    [op |-> op, id |-> id, customer_id |-> customer_id, status |-> status,
     error |-> error, result |-> result]

\* A call of the api as its caller made it: the operation, its arguments
\* (those the operation does not take are left at 0, <<>>, FALSE, ""), the
\* number of the call and the clock at which it was made.
Call(token, op, id, customer_id, items, paid, status, at) ==
    [token |-> token, op |-> op, id |-> id, customer_id |-> customer_id,
     items |-> items, paid |-> paid, status |-> status, at |-> at]

NoCall == Call(0, "none", 0, 0, <<>>, FALSE, "", 0)

\* What a step took out of its delay: the call, and the stored order the call
\* names as it was when the call resumed (<<>> when it names none).
Resumed(call, before) == [call |-> call, before |-> before]

\* The Dashboard as it mounts: no listing received yet, no order selected,
\* the edit dialog closed.
MountedDashboard ==
    [orders |-> <<>>, selectedOrder |-> <<>>, editModalOpen |-> FALSE]

Init ==
    /\ mockCustomers = SeedCustomers
    /\ mockProducts = SeedProducts
    /\ mockSaleOrders = <<>>
    /\ now = 0
    /\ lastOp = Observed("none", 0, 0, "", "none", <<>>)
    /\ inFlight = {}
    /\ issued = 0
    /\ resumed = Resumed(NoCall, <<>>)
    /\ dashboard = MountedDashboard

\* The wall clock advances by a millisecond.
Tick ==
    /\ now < MaxClock
    /\ now' = now + 1
    /\ lastOp' = Observed("tick", 0, 0, "", "none", <<>>)
    /\ UNCHANGED <<mockCustomers, mockProducts, mockSaleOrders>>

getSaleOrders(status) ==
    /\ lastOp' = Observed("getSaleOrders", 0, 0, status, "none",
                          Listing(mockSaleOrders, status))
    /\ UNCHANGED <<mockCustomers, mockProducts, mockSaleOrders, now>>

\* createSaleOrder with a customer_id no customer has: it throws before it
\* reads anything else of the form.
createSaleOrderNoCustomer(customer_id) ==
    /\ FindCustomer(mockCustomers, customer_id) = 0
    /\ lastOp' = Observed("createSaleOrder", 0, customer_id, "",
                          "Customer not found", <<>>)
    /\ UNCHANGED <<mockCustomers, mockProducts, mockSaleOrders, now>>

\* The create that writes its order over the last one stored instead of
\* pushing it.
createSaleOrderLosesPrevious(customer_id, items, paid, invoice_no, invoice_date, d) ==
    /\ FindCustomer(mockCustomers, customer_id) # 0
    /\ Len(mockSaleOrders) < MaxOrders
    /\ now + d <= MaxClock
    /\ LET newOrder == NewOrder(mockSaleOrders, mockCustomers, mockProducts,
                                customer_id, items, paid, invoice_no,
                                invoice_date, now, now + d)
       IN  /\ mockSaleOrders' =
                  IF mockSaleOrders = <<>> THEN <<newOrder>>
                  ELSE [mockSaleOrders EXCEPT ![Len(mockSaleOrders)] = newOrder]
           /\ mockProducts' = UpdateInventory(mockProducts, items)
           /\ lastOp' = Observed("createSaleOrder", newOrder.id, customer_id,
                                 "", "none", <<>>)
    /\ now' = now + d
    /\ UNCHANGED mockCustomers

\* createSaleOrder past the customer check.  The two `new Date()` of the
\* order literal are d milliseconds apart.
createSaleOrder(customer_id, items, paid, invoice_no, invoice_date, d) ==
    /\ FindCustomer(mockCustomers, customer_id) # 0
    /\ Len(mockSaleOrders) < MaxOrders
    /\ now + d <= MaxClock
    /\ LET newOrder == NewOrder(mockSaleOrders, mockCustomers, mockProducts,
                                customer_id, items, paid, invoice_no,
                                invoice_date, now, now + d)
       IN  /\ mockSaleOrders' = Append(mockSaleOrders, newOrder)
           /\ mockProducts' = UpdateInventory(mockProducts, items)
           /\ lastOp' = Observed("createSaleOrder", newOrder.id, customer_id,
                                 "", "none", <<>>)
    /\ now' = now + d
    /\ UNCHANGED mockCustomers

\* The failing update with the customer looked up before the order.
updateSaleOrderChecksCustomerFirst(id, customer_id) ==
    /\ FindOrderIndex(mockSaleOrders, id) = 0
    /\ lastOp' = Observed("updateSaleOrder", id, customer_id, "",
                          IF FindCustomer(mockCustomers, customer_id) = 0
                          THEN "Customer not found" ELSE "Order not found",
                          <<>>)
    /\ UNCHANGED <<mockCustomers, mockProducts, mockSaleOrders, now>>

\* updateSaleOrder with an id no order has: it throws before it looks at the
\* customer.
updateSaleOrderNoOrder(id, customer_id) ==
    /\ FindOrderIndex(mockSaleOrders, id) = 0
    /\ lastOp' = Observed("updateSaleOrder", id, customer_id, "",
                          "Order not found", <<>>)
    /\ UNCHANGED <<mockCustomers, mockProducts, mockSaleOrders, now>>

\* The update with the customer looked up after the order was written.
updateSaleOrderChecksCustomerLate(id, customer_id) ==
    LET orderIndex == FindOrderIndex(mockSaleOrders, id)
    IN  /\ orderIndex # 0
        /\ FindCustomer(mockCustomers, customer_id) = 0
        /\ mockSaleOrders' =
               [mockSaleOrders EXCEPT ![orderIndex].customer_id = customer_id]
        /\ lastOp' = Observed("updateSaleOrder", id, customer_id, "",
                              "Customer not found", <<>>)
        /\ UNCHANGED <<mockCustomers, mockProducts, now>>

updateSaleOrderNoCustomer(id, customer_id) ==
    /\ FindOrderIndex(mockSaleOrders, id) # 0
    /\ FindCustomer(mockCustomers, customer_id) = 0
    /\ lastOp' = Observed("updateSaleOrder", id, customer_id, "",
                          "Customer not found", <<>>)
    /\ UNCHANGED <<mockCustomers, mockProducts, mockSaleOrders, now>>

\* The update that takes the order out of the array and pushes its
\* replacement at the end.
updateSaleOrderMovesToEnd(id, customer_id, items, paid, invoice_no, invoice_date) ==
    LET orderIndex == FindOrderIndex(mockSaleOrders, id)
    IN  /\ orderIndex # 0
        /\ FindCustomer(mockCustomers, customer_id) # 0
        /\ mockSaleOrders' =
               Append(SubSeq(mockSaleOrders, 1, orderIndex - 1)
                          \o SubSeq(mockSaleOrders, orderIndex + 1, Len(mockSaleOrders)),
                      UpdatedOrder(mockSaleOrders[orderIndex], mockCustomers,
                                   mockProducts, customer_id, items, paid,
                                   invoice_no, invoice_date, now))
        /\ lastOp' = Observed("updateSaleOrder", id, customer_id, "", "none",
                              <<>>)
        /\ UNCHANGED <<mockCustomers, mockProducts, now>>

\* The update with the inventory loop of createSaleOrder run again.
updateSaleOrderReappliesInventory(id, customer_id, items, paid, invoice_no, invoice_date) ==
    LET orderIndex == FindOrderIndex(mockSaleOrders, id)
    IN  /\ orderIndex # 0
        /\ FindCustomer(mockCustomers, customer_id) # 0
        /\ mockSaleOrders' =
               [mockSaleOrders EXCEPT
                   ![orderIndex] =
                       UpdatedOrder(mockSaleOrders[orderIndex], mockCustomers,
                                    mockProducts, customer_id, items, paid,
                                    invoice_no, invoice_date, now)]
        /\ mockProducts' = UpdateInventory(mockProducts, items)
        /\ lastOp' = Observed("updateSaleOrder", id, customer_id, "", "none",
                              <<>>)
        /\ UNCHANGED <<mockCustomers, now>>

updateSaleOrder(id, customer_id, items, paid, invoice_no, invoice_date) ==
    LET orderIndex == FindOrderIndex(mockSaleOrders, id)
    IN  /\ orderIndex # 0
        /\ FindCustomer(mockCustomers, customer_id) # 0
        /\ mockSaleOrders' =
               [mockSaleOrders EXCEPT
                   ![orderIndex] =
                       UpdatedOrder(mockSaleOrders[orderIndex], mockCustomers,
                                    mockProducts, customer_id, items, paid,
                                    invoice_no, invoice_date, now)]
        /\ lastOp' = Observed("updateSaleOrder", id, customer_id, "", "none",
                              <<>>)
        /\ UNCHANGED <<mockCustomers, mockProducts, now>>

\* markOrderAsPaid without the findIndex check: the write to index -1 misses
\* every element and the call returns.
markOrderAsPaidUnchecked(id) ==
    /\ FindOrderIndex(mockSaleOrders, id) = 0
    /\ lastOp' = Observed("markOrderAsPaid", id, 0, "", "none", <<>>)
    /\ UNCHANGED <<mockCustomers, mockProducts, mockSaleOrders, now>>

markOrderAsPaidNoOrder(id) ==
    /\ FindOrderIndex(mockSaleOrders, id) = 0
    /\ lastOp' = Observed("markOrderAsPaid", id, 0, "", "Order not found", <<>>)
    /\ UNCHANGED <<mockCustomers, mockProducts, mockSaleOrders, now>>

markOrderAsPaid(id) ==
    LET orderIndex == FindOrderIndex(mockSaleOrders, id)
    IN  /\ orderIndex # 0
        /\ mockSaleOrders' =
               [mockSaleOrders EXCEPT
                   ![orderIndex] = PaidOrder(mockSaleOrders[orderIndex], now)]
        /\ lastOp' = Observed("markOrderAsPaid", id, 0, "", "none", <<>>)
        /\ UNCHANGED <<mockCustomers, mockProducts, now>>

\* The service called one operation at a time: no call is ever in flight and
\* no Dashboard is driving it.
Next ==
    \/ Tick /\ UNCHANGED callers
    \/ \E status \in Statuses : getSaleOrders(status) /\ UNCHANGED callers
    \/ \E customer_id \in CustomerIds :
          createSaleOrderNoCustomer(customer_id) /\ UNCHANGED callers
    \/ \E customer_id \in CustomerIds, items \in ItemLists, paid \in BOOLEAN,
          invoice_no \in InvoiceNos, invoice_date \in InvoiceDates, d \in {0, 1} :
          /\ createSaleOrder(customer_id, items, paid, invoice_no, invoice_date, d)
          /\ UNCHANGED callers
    \/ \E id \in OrderIds, customer_id \in CustomerIds :
          updateSaleOrderNoOrder(id, customer_id) /\ UNCHANGED callers
    \/ \E id \in OrderIds, customer_id \in CustomerIds :
          updateSaleOrderNoCustomer(id, customer_id) /\ UNCHANGED callers
    \/ \E id \in OrderIds, customer_id \in CustomerIds, items \in ItemLists,
          paid \in BOOLEAN, invoice_no \in InvoiceNos,
          invoice_date \in InvoiceDates :
          /\ updateSaleOrder(id, customer_id, items, paid, invoice_no, invoice_date)
          /\ UNCHANGED callers
    \/ \E id \in OrderIds : markOrderAsPaidNoOrder(id) /\ UNCHANGED callers
    \/ \E id \in OrderIds : markOrderAsPaid(id) /\ UNCHANGED callers

Spec == Init /\ [][Next]_vars

\* ------------------------------------------------- calls in flight together
\* Every operation of the api starts with `await delay(500)`: the call is
\* parked on a timer and its body runs, to completion, in a later turn of the
\* event loop.  A caller that does not await one call before it makes the
\* next has several parked at once.

\* The clock of the runs with calls in flight goes one millisecond past
\* MaxClock, for a call made at MaxClock to leave its delay.
Horizon == MaxClock + 1

Elapse ==
    /\ now < Horizon
    /\ now' = now + 1
    /\ lastOp' = Observed("tick", 0, 0, "", "none", <<>>)
    /\ resumed' = Resumed(NoCall, <<>>)
    /\ UNCHANGED <<mockCustomers, mockProducts, mockSaleOrders, inFlight,
                   issued, dashboard>>

\* The caller invokes an operation: the call enters its delay.
invoke(op, id, customer_id, items, paid, status) ==
    /\ issued < MaxCalls
    /\ issued' = issued + 1
    /\ inFlight' = inFlight \cup
           {Call(issued + 1, op, id, customer_id, items, paid, status, now)}
    /\ lastOp' = Observed("invoke", 0, 0, "", "none", <<>>)
    /\ resumed' = Resumed(NoCall, <<>>)
    /\ UNCHANGED <<mockCustomers, mockProducts, mockSaleOrders, now, dashboard>>

\* The stored order a call names, as a sequence of at most one order.
Named(orders, id) ==
    IF FindOrderIndex(orders, id) = 0 THEN <<>>
    ELSE <<orders[FindOrderIndex(orders, id)]>>

\* setTimeout(resolve, 500) has fired: the clock has moved on since the call
\* was made.  In which order calls parked together resume is left open.
delayOver(call) ==
    /\ call \in inFlight
    /\ now > call.at
    /\ resumed' = Resumed(call, Named(mockSaleOrders, call.id))
    /\ UNCHANGED issued

leaveDelay(call) ==
    /\ delayOver(call)
    /\ inFlight' = inFlight \ {call}

\* The body of the operation a call is for, run with the call's arguments
\* once the call has left its delay.  The invoice fields, which no branch of
\* the api reads, are drawn here.
resumeGetSaleOrders(call) ==
    /\ call.op = "getSaleOrders"
    /\ leaveDelay(call)
    /\ getSaleOrders(call.status)
    /\ UNCHANGED dashboard

resumeCreateSaleOrder(call) ==
    /\ call.op = "createSaleOrder"
    /\ leaveDelay(call)
    /\ \/ createSaleOrderNoCustomer(call.customer_id)
       \/ \E invoice_no \in InvoiceNos, invoice_date \in InvoiceDates,
             d \in {0, 1} :
             createSaleOrder(call.customer_id, call.items, call.paid,
                             invoice_no, invoice_date, d)
    /\ UNCHANGED dashboard

resumeUpdateSaleOrder(call) ==
    /\ call.op = "updateSaleOrder"
    /\ leaveDelay(call)
    /\ \/ updateSaleOrderNoOrder(call.id, call.customer_id)
       \/ updateSaleOrderNoCustomer(call.id, call.customer_id)
       \/ \E invoice_no \in InvoiceNos, invoice_date \in InvoiceDates :
             updateSaleOrder(call.id, call.customer_id, call.items,
                             call.paid, invoice_no, invoice_date)
    /\ UNCHANGED dashboard

resumeMarkOrderAsPaid(call) ==
    /\ call.op = "markOrderAsPaid"
    /\ leaveDelay(call)
    /\ \/ markOrderAsPaidNoOrder(call.id)
       \/ markOrderAsPaid(call.id)
    /\ UNCHANGED dashboard

ConcurrentNext ==
    \/ Elapse
    \/ \E status \in Statuses :
          invoke("getSaleOrders", 0, 0, <<>>, FALSE, status)
    \/ \E customer_id \in CustomerIds, items \in ItemLists, paid \in BOOLEAN :
          invoke("createSaleOrder", 0, customer_id, items, paid, "")
    \/ \E id \in OrderIds, customer_id \in CustomerIds, items \in ItemLists,
          paid \in BOOLEAN :
          invoke("updateSaleOrder", id, customer_id, items, paid, "")
    \/ \E id \in OrderIds : invoke("markOrderAsPaid", id, 0, <<>>, FALSE, "")
    \/ \E call \in inFlight : resumeGetSaleOrders(call)
    \/ \E call \in inFlight : resumeCreateSaleOrder(call)
    \/ \E call \in inFlight : resumeUpdateSaleOrder(call)
    \/ \E call \in inFlight : resumeMarkOrderAsPaid(call)

\* The service with up to MaxCalls calls made without awaiting one another.
Concurrent == Init /\ [][ConcurrentNext]_vars

\* ------------------------------------------------- the Dashboard in front
\* The operator works the api through the Dashboard, on its "active" tab:
\* the table shows the listing the orders query last received, each row with
\* an Edit and a Mark as Paid button; the "completed" tab offers View only,
\* whose form submits nothing.  The listing the Dashboard starts with is the
\* one of the empty repository.

\* The clock of the runs with the Dashboard: each of the operator's requests
\* and the refetch that follows it get a millisecond to leave their delay.
PatienceOfOperator == MaxClock + MaxMutations

Wait ==
    /\ now < PatienceOfOperator
    /\ now' = now + 1
    /\ lastOp' = Observed("tick", 0, 0, "", "none", <<>>)
    /\ resumed' = Resumed(NoCall, <<>>)
    /\ UNCHANGED <<mockCustomers, mockProducts, mockSaleOrders, inFlight,
                   issued, dashboard>>

\* What the order form lets the operator enter: a customer of the Select, and
\* at least one item (orderFormSchema), each the first SKU of a product with
\* a quantity of at least 1.
FormCustomerIds == {c \in CustomerIds : FindCustomer(SeedCustomers, c) # 0}

FormItems == { [sku_id |-> 20, price |-> 3, quantity |-> 1] }

FormItemLists == SeqsUpTo(FormItems, MaxItems) \ {<<>>}

\* The items of a stored order as the edit form loads them.
FormItemsOf(items) ==
    [k \in 1..Len(items) |->
        [sku_id |-> items[k].sku_id, price |-> items[k].price,
         quantity |-> items[k].quantity]]

Pending(op) == \E call \in inFlight : call.op = op

\* useMutation(...).mutate: the api call enters its delay.
mutate(op, id, customer_id, items, paid) ==
    /\ issued < MaxMutations
    /\ issued' = issued + 1
    /\ inFlight' = inFlight \cup
           {Call(issued + 1, op, id, customer_id, items, paid, "", now)}
    /\ lastOp' = Observed("invoke", 0, 0, "", "none", <<>>)
    /\ resumed' = Resumed(NoCall, <<>>)
    /\ UNCHANGED <<mockCustomers, mockProducts, mockSaleOrders, now, dashboard>>

\* The create form is submitted (handleCreateOrder).
submitCreate(customer_id, items, paid) ==
    /\ ~dashboard.editModalOpen
    /\ ~Pending("createSaleOrder")
    /\ mutate("createSaleOrder", 0, customer_id, items, paid)

\* Edit on row k of the table (handleEditOrder): the row's order, as listed,
\* becomes the initialData of the edit form.
clickEdit(k) ==
    /\ ~dashboard.editModalOpen
    /\ dashboard' = [dashboard EXCEPT !.selectedOrder = <<dashboard.orders[k]>>,
                                      !.editModalOpen = TRUE]
    /\ lastOp' = Observed("click", 0, 0, "", "none", <<>>)
    /\ resumed' = Resumed(NoCall, <<>>)
    /\ UNCHANGED <<mockCustomers, mockProducts, mockSaleOrders, now, inFlight,
                   issued>>

\* The edit dialog is dismissed (onOpenChange); selectedOrder stays.
closeEdit ==
    /\ dashboard.editModalOpen
    /\ dashboard' = [dashboard EXCEPT !.editModalOpen = FALSE]
    /\ lastOp' = Observed("click", 0, 0, "", "none", <<>>)
    /\ resumed' = Resumed(NoCall, <<>>)
    /\ UNCHANGED <<mockCustomers, mockProducts, mockSaleOrders, now, inFlight,
                   issued>>

\* Mark as Paid on row k of the table (handleMarkAsPaid).
clickMarkAsPaid(k) ==
    /\ ~dashboard.editModalOpen
    /\ mutate("markOrderAsPaid", dashboard.orders[k].id, 0, <<>>, FALSE)

\* The edit form is submitted (handleUpdateOrder) with the fields as they
\* were loaded and the paid checkbox as the operator leaves it.
submitEdit(paid) ==
    /\ dashboard.editModalOpen
    /\ dashboard.selectedOrder # <<>>
    /\ ~Pending("updateSaleOrder")
    /\ LET order == dashboard.selectedOrder[1]
       IN  mutate("updateSaleOrder", order.id, order.customer_id,
                  FormItemsOf(order.items), paid)

\* queryClient.invalidateQueries({ queryKey: ["orders"] }): the orders query
\* fetches again, dropping the fetch it had under way.
Refetched(calls, t) ==
    {call \in calls : call.op # "getSaleOrders"}
        \cup {Call(0, "getSaleOrders", 0, 0, <<>>, FALSE, "active", t)}

\* A mutation's call has resumed: onSuccess invalidates the orders query,
\* onError only shows a toast.
settled(call) ==
    inFlight' = IF lastOp'.error = "none"
                THEN Refetched(inFlight \ {call}, now')
                ELSE inFlight \ {call}

settleCreateSaleOrder(call) ==
    /\ call.op = "createSaleOrder"
    /\ delayOver(call)
    /\ \/ createSaleOrderNoCustomer(call.customer_id)
       \/ \E invoice_no \in InvoiceNos, invoice_date \in InvoiceDates,
             d \in {0, 1} :
             createSaleOrder(call.customer_id, call.items, call.paid,
                             invoice_no, invoice_date, d)
    /\ settled(call)
    /\ UNCHANGED dashboard

\* updateOrderMutation's onSuccess also closes the edit dialog and clears
\* selectedOrder.
settleUpdateSaleOrder(call) ==
    /\ call.op = "updateSaleOrder"
    /\ delayOver(call)
    /\ \/ updateSaleOrderNoOrder(call.id, call.customer_id)
       \/ updateSaleOrderNoCustomer(call.id, call.customer_id)
       \/ \E invoice_no \in InvoiceNos, invoice_date \in InvoiceDates :
             updateSaleOrder(call.id, call.customer_id, call.items,
                             call.paid, invoice_no, invoice_date)
    /\ settled(call)
    /\ dashboard' = IF lastOp'.error = "none"
                    THEN [dashboard EXCEPT !.selectedOrder = <<>>,
                                           !.editModalOpen = FALSE]
                    ELSE dashboard

settleMarkOrderAsPaid(call) ==
    /\ call.op = "markOrderAsPaid"
    /\ delayOver(call)
    /\ \/ markOrderAsPaidNoOrder(call.id)
       \/ markOrderAsPaid(call.id)
    /\ settled(call)
    /\ UNCHANGED dashboard

\* The orders query receives its listing: the table shows it.
settleGetSaleOrders(call) ==
    /\ call.op = "getSaleOrders"
    /\ leaveDelay(call)
    /\ getSaleOrders(call.status)
    /\ dashboard' = [dashboard EXCEPT !.orders = lastOp'.result]

PresentationNext ==
    \/ Wait
    \/ \E customer_id \in FormCustomerIds, items \in FormItemLists,
          paid \in BOOLEAN : submitCreate(customer_id, items, paid)
    \/ \E k \in 1..Len(dashboard.orders) : clickEdit(k)
    \/ closeEdit
    \/ \E k \in 1..Len(dashboard.orders) : clickMarkAsPaid(k)
    \/ \E paid \in BOOLEAN : submitEdit(paid)
    \/ \E call \in inFlight : settleCreateSaleOrder(call)
    \/ \E call \in inFlight : settleUpdateSaleOrder(call)
    \/ \E call \in inFlight : settleMarkOrderAsPaid(call)
    \/ \E call \in inFlight : settleGetSaleOrders(call)

\* The service driven through the Dashboard only, with up to MaxMutations
\* create, edit and mark-paid requests.
Presentation == Init /\ [][PresentationNext]_vars

\* ------------------------------------------------- vocabulary of the claims
\* lastOp describes the step that led to the current state: every action
\* writes it.
Ok(op) == lastOp.op = op /\ lastOp.error = "none"
OkStep(op) == lastOp'.op = op /\ lastOp'.error = "none"

StoredIds(orders) == {orders[i].id : i \in 1..Len(orders)}

KnownCustomer(customer_id) ==
    \E c \in 1..Len(mockCustomers) : mockCustomers[c].id = customer_id

RECURSIVE LineSum(_)
LineSum(items) ==
    IF items = <<>> THEN 0
    ELSE Head(items).price * Head(items).quantity + LineSum(Tail(items))

\* The positions <<p, k>> of the SKUs of the catalog, and their ids.
SkuPositions(products) ==
    UNION {{<<p, k>> : k \in 1..Len(products[p].sku)} : p \in 1..Len(products)}

CatalogSkuIds(products) ==
    {products[pk[1]].sku[pk[2]].id : pk \in SkuPositions(products)}

InventoryAt(products, pk) == products[pk[1]].sku[pk[2]].quantity_in_inventory

\* The quantity the items of an order ask of one SKU.
RECURSIVE QuantityOf(_, _)
QuantityOf(items, sku_id) ==
    IF items = <<>> THEN 0
    ELSE (IF Head(items).sku_id = sku_id THEN Head(items).quantity ELSE 0)
         + QuantityOf(Tail(items), sku_id)

\* The order a successful createSaleOrder step has stored.
Created == mockSaleOrders'[Len(mockSaleOrders')]

\* ------------------------------------------------------------------- C1
TotalsMatchItems ==
    \A i \in 1..Len(mockSaleOrders) :
        mockSaleOrders[i].total_price = LineSum(mockSaleOrders[i].items)

MarkPaidKeepsTotals ==
    lastOp'.op = "markOrderAsPaid" =>
        /\ Len(mockSaleOrders') = Len(mockSaleOrders)
        /\ \A i \in 1..Len(mockSaleOrders) :
              /\ mockSaleOrders'[i].total_price = mockSaleOrders[i].total_price
              /\ mockSaleOrders'[i].items = mockSaleOrders[i].items

\* C1: every stored order's total_price is the sum over its stored items of
\* price * quantity, after any sequence of creates, updates and mark-paids;
\* a markOrderAsPaid step changes no order's total_price or items.
C1_TotalPrice == []TotalsMatchItems /\ [][MarkPaidKeepsTotals]_vars

\* A two-line order (3 * 2 + 2 * 1) has just been marked paid.
C1_Witness ==
    /\ Ok("markOrderAsPaid")
    /\ \E i \in 1..Len(mockSaleOrders) :
          /\ mockSaleOrders[i].id = lastOp.id
          /\ Len(mockSaleOrders[i].items) = 2
          /\ mockSaleOrders[i].total_price = 8

\* ------------------------------------------------------------------- C2
IdsInCreationOrder ==
    \A i \in 1..Len(mockSaleOrders) : mockSaleOrders[i].id = i

IdsUnique ==
    \A i, j \in 1..Len(mockSaleOrders) :
        mockSaleOrders[i].id = mockSaleOrders[j].id => i = j

CreateAssignsNextId ==
    OkStep("createSaleOrder") =>
        /\ Created.id = lastOp'.id
        /\ IF mockSaleOrders = <<>>
           THEN Created.id = 1
           ELSE /\ Created.id - 1 \in StoredIds(mockSaleOrders)
                /\ \A x \in StoredIds(mockSaleOrders) : x < Created.id

\* C2: createSaleOrder gives the new order the id max(stored ids) + 1, or 1
\* in an empty repository; orders created from the empty repository carry
\* the ids 1..N in creation order and no two stored orders share an id.
C2_Ids == [](IdsInCreationOrder /\ IdsUnique) /\ [][CreateAssignsNextId]_vars

\* The second order has just been created and got id 2.
C2_Witness ==
    /\ Ok("createSaleOrder")
    /\ Len(mockSaleOrders) = 2
    /\ mockSaleOrders[2].id = 2
    /\ lastOp.id = 2

\* ------------------------------------------------------------------- C3
\* The catalog keeps its products and SKUs; only quantities move.
SameCatalogShape ==
    /\ Len(mockProducts') = Len(mockProducts)
    /\ \A p \in 1..Len(mockProducts) :
          /\ mockProducts'[p].id = mockProducts[p].id
          /\ mockProducts'[p].name = mockProducts[p].name
          /\ Len(mockProducts'[p].sku) = Len(mockProducts[p].sku)
          /\ \A k \in 1..Len(mockProducts[p].sku) :
                mockProducts'[p].sku[k].id = mockProducts[p].sku[k].id

CreateDecrementsBySum ==
    OkStep("createSaleOrder") =>
        /\ SameCatalogShape
        /\ \A pk \in SkuPositions(mockProducts) :
              InventoryAt(mockProducts', pk) =
                  InventoryAt(mockProducts, pk)
                  - QuantityOf(Created.items, mockProducts[pk[1]].sku[pk[2]].id)

\* C3 (amended): a successful createSaleOrder reduces the inventory of every
\* catalog SKU S by the sum of the quantities of the order's items that
\* reference S (exactly Q when {sku_id: S, quantity: Q} is the only item
\* referencing S) and leaves every SKU the order does not reference unchanged.
C3_InventoryDecrement == [][CreateDecrementsBySum]_vars

\* The first order was created with two lines of the same SKU, quantity 2
\* each, and that SKU's inventory is 4 below the seeded value.
C3_Witness ==
    /\ Ok("createSaleOrder")
    /\ Len(mockSaleOrders) = 1
    /\ \E pk \in SkuPositions(mockProducts) :
          /\ QuantityOf(mockSaleOrders[1].items,
                        mockProducts[pk[1]].sku[pk[2]].id) = 4
          /\ Len(mockSaleOrders[1].items) = 2
          /\ InventoryAt(mockProducts, pk) = InventoryAt(SeedProducts, pk) - 4

CreateDecrementsByEachItem ==
    OkStep("createSaleOrder") =>
        \A k \in 1..Len(Created.items), pk \in SkuPositions(mockProducts) :
            mockProducts[pk[1]].sku[pk[2]].id = Created.items[k].sku_id =>
                InventoryAt(mockProducts', pk) =
                    InventoryAt(mockProducts, pk) - Created.items[k].quantity

\* C3 as stated: for every item {sku_id: S, quantity: Q} of a successfully
\* created order with S in the catalog, S's inventory goes down by exactly Q.
C3_AsStated == [][CreateDecrementsByEachItem]_vars

\* ------------------------------------------------------------------- C4
InventoryMovesOnlyOnCreate ==
    /\ lastOp'.op \in {"updateSaleOrder", "markOrderAsPaid", "getSaleOrders"} =>
          mockProducts' = mockProducts
    /\ mockProducts' # mockProducts => OkStep("createSaleOrder")

\* C4: updateSaleOrder, markOrderAsPaid and getSaleOrders leave the catalog
\* as it is, whether they return or throw and whatever items an update
\* writes; only a successful createSaleOrder changes an inventory.
C4_InventoryFrame == [][InventoryMovesOnlyOnCreate]_vars

\* An update has just written a catalog SKU into an order and the catalog
\* still has its seeded quantities.
C4_Witness ==
    /\ Ok("updateSaleOrder")
    /\ mockProducts = SeedProducts
    /\ \E i \in 1..Len(mockSaleOrders) :
          /\ mockSaleOrders[i].id = lastOp.id
          /\ \E k \in 1..Len(mockSaleOrders[i].items) :
                mockSaleOrders[i].items[k].sku_id \in CatalogSkuIds(mockProducts)

\* ------------------------------------------------------------------- C5
Occurrences(seq, x) == Cardinality({k \in 1..Len(seq) : seq[k] = x})

ListingsPartition ==
    LET active == Listing(mockSaleOrders, "active")
        completed == Listing(mockSaleOrders, "completed")
    IN  /\ \A i \in 1..Len(mockSaleOrders) :
              LET o == mockSaleOrders[i]
              IN  /\ Occurrences(active, o) = (IF o.paid THEN 0 ELSE 1)
                  /\ Occurrences(completed, o) = (IF o.paid THEN 1 ELSE 0)
        /\ Len(active) + Len(completed) = Len(mockSaleOrders)
        /\ lastOp.op = "getSaleOrders" =>
              lastOp.result = (IF lastOp.status = "active" THEN active
                               ELSE completed)

\* C5: in every reachable state the active listing holds exactly the stored
\* orders with paid = FALSE and the completed listing exactly those with
\* paid = TRUE, each once, so that the two listings are disjoint and together
\* hold every stored order exactly once; getSaleOrders returns that listing.
C5_FilterPartition == ListingsPartition

\* getSaleOrders("active") has just returned one of two stored orders.
C5_Witness ==
    /\ Ok("getSaleOrders")
    /\ lastOp.status = "active"
    /\ Len(lastOp.result) = 1
    /\ Len(mockSaleOrders) = 2

\* ------------------------------------------------------------------- C6
\* The position of a listed order in the repository.
PositionOf(o) == CHOOSE i \in 1..Len(mockSaleOrders) : mockSaleOrders[i] = o

ListingSortedStable ==
    lastOp.op = "getSaleOrders" =>
        LET r == lastOp.result
        IN  /\ \A k \in 1..Len(r) - 1 :
                  r[k].last_modified >= r[k + 1].last_modified
            /\ \A k, l \in 1..Len(r) :
                  k < l /\ r[k].last_modified = r[l].last_modified =>
                      PositionOf(r[k]) < PositionOf(r[l])

ListingKeepsRepository ==
    lastOp'.op = "getSaleOrders" => mockSaleOrders' = mockSaleOrders

\* C6: the sequence getSaleOrders returns is in descending last_modified
\* order, orders with equal last_modified keep their repository order, and
\* the call leaves the repository in the order it had.
C6_SortOrder == []ListingSortedStable /\ [][ListingKeepsRepository]_vars

\* A listing of two orders came back with the later-stored, later-modified
\* order first.
C6_Witness ==
    /\ Ok("getSaleOrders")
    /\ Len(lastOp.result) = 2
    /\ lastOp.result[1].id = 2
    /\ lastOp.result[2].id = 1
    /\ lastOp.result[1].last_modified > lastOp.result[2].last_modified

\* ------------------------------------------------------------------- C7
NothingStored ==
    /\ mockSaleOrders' = mockSaleOrders
    /\ mockProducts' = mockProducts
    /\ mockCustomers' = mockCustomers

UnknownCustomerStep ==
    /\ lastOp'.op \in {"createSaleOrder", "updateSaleOrder"}
    /\ ~KnownCustomer(lastOp'.customer_id)

UnknownCustomerFails ==
    UnknownCustomerStep =>
        /\ lastOp'.error =
              (IF /\ lastOp'.op = "updateSaleOrder"
                  /\ lastOp'.id \notin StoredIds(mockSaleOrders)
               THEN "Order not found"
               ELSE "Customer not found")
        /\ NothingStored

\* C7 (amended): createSaleOrder with a customer_id no customer has, and
\* updateSaleOrder of a stored order with such a customer_id, fail with
\* "Customer not found"; updateSaleOrder with such a customer_id and an id no
\* stored order has fails with "Order not found" instead; each of these
\* failures adds or replaces no order and changes no inventory.
C7_CustomerNotFound == [][UnknownCustomerFails]_vars

\* An update of a stored order has just failed on its customer.
C7_Witness ==
    /\ lastOp.op = "updateSaleOrder"
    /\ lastOp.error = "Customer not found"
    /\ lastOp.id \in StoredIds(mockSaleOrders)
    /\ ~KnownCustomer(lastOp.customer_id)

UnknownCustomerAlwaysCustomerError ==
    UnknownCustomerStep =>
        /\ lastOp'.error = "Customer not found"
        /\ NothingStored

\* C7 as stated: every createSaleOrder and updateSaleOrder call with a
\* customer_id no customer has fails with "Customer not found", atomically.
C7_AsStated == [][UnknownCustomerAlwaysCustomerError]_vars

\* ------------------------------------------------------------------- C8
UnknownOrderFails ==
    /\ lastOp'.op \in {"updateSaleOrder", "markOrderAsPaid"}
    /\ lastOp'.id \notin StoredIds(mockSaleOrders)
    => /\ lastOp'.error = "Order not found"
       /\ NothingStored

\* C8: updateSaleOrder and markOrderAsPaid called with an id no stored order
\* has fail with "Order not found" and leave the repository and the catalog
\* as they were; no order is created.
C8_OrderNotFound == [][UnknownOrderFails]_vars

\* markOrderAsPaid has just failed on an id next to a stored order.
C8_Witness ==
    /\ lastOp.op = "markOrderAsPaid"
    /\ lastOp.error = "Order not found"
    /\ Len(mockSaleOrders) = 1
    /\ lastOp.id \notin StoredIds(mockSaleOrders)

\* ------------------------------------------------------------------- C9
SameButPaidAndModified(old, new) ==
    /\ new.id = old.id
    /\ new.customer_id = old.customer_id
    /\ new.customer_name = old.customer_name
    /\ new.items = old.items
    /\ new.invoice_no = old.invoice_no
    /\ new.invoice_date = old.invoice_date
    /\ new.created_at = old.created_at
    /\ new.total_price = old.total_price

MarkPaidTouchesPaidOnly ==
    OkStep("markOrderAsPaid") =>
        /\ Len(mockSaleOrders') = Len(mockSaleOrders)
        /\ mockProducts' = mockProducts
        /\ \E i \in 1..Len(mockSaleOrders) :
              /\ mockSaleOrders[i].id = lastOp'.id
              /\ mockSaleOrders'[i].paid = TRUE
              /\ SameButPaidAndModified(mockSaleOrders[i], mockSaleOrders'[i])
              /\ mockSaleOrders[i].paid =>
                    mockSaleOrders' =
                        [mockSaleOrders EXCEPT
                            ![i].last_modified = mockSaleOrders'[i].last_modified]
              /\ \A j \in 1..Len(mockSaleOrders) :
                    j # i => mockSaleOrders'[j] = mockSaleOrders[j]

\* C9: a successful markOrderAsPaid(id) sets paid on the order with that id,
\* changes nothing of it but paid and last_modified, changes no other order,
\* and on an order already paid changes nothing but last_modified.
C9_MarkPaidFrame == [][MarkPaidTouchesPaidOnly]_vars

\* One of two orders has just been marked paid; the other is still active.
C9_Witness ==
    /\ Ok("markOrderAsPaid")
    /\ Len(mockSaleOrders) = 2
    /\ \E i, j \in 1..2 :
          /\ mockSaleOrders[i].id = lastOp.id
          /\ mockSaleOrders[i].paid
          /\ mockSaleOrders[i].last_modified > mockSaleOrders[i].created_at
          /\ ~mockSaleOrders[j].paid

\* ------------------------------------------------------------------ C10
\* The name of the product that owns a catalog SKU.
OwnerName(products, sku_id) ==
    LET pk == CHOOSE q \in SkuPositions(products) :
                  products[q[1]].sku[q[2]].id = sku_id
    IN  products[pk[1]].name

NamesResolved ==
    \A i \in 1..Len(mockSaleOrders) :
        \A k \in 1..Len(mockSaleOrders[i].items) :
            LET item == mockSaleOrders[i].items[k]
            IN  item.product_name =
                    (IF item.sku_id \in CatalogSkuIds(mockProducts)
                     THEN OwnerName(mockProducts, item.sku_id)
                     ELSE "Unknown Product")

RECURSIVE TotalInventory(_, _)
TotalInventory(products, positions) ==
    IF positions = {} THEN 0
    ELSE LET pk == CHOOSE q \in positions : TRUE
         IN  InventoryAt(products, pk) + TotalInventory(products, positions \ {pk})

RECURSIVE CatalogQuantity(_, _)
CatalogQuantity(items, skuIds) ==
    IF items = <<>> THEN 0
    ELSE (IF Head(items).sku_id \in skuIds THEN Head(items).quantity ELSE 0)
         + CatalogQuantity(Tail(items), skuIds)

UnknownSkuAccepted ==
    /\ lastOp'.op = "createSaleOrder" /\ KnownCustomer(lastOp'.customer_id) =>
          /\ lastOp'.error = "none"
          /\ Len(mockSaleOrders') = Len(mockSaleOrders) + 1
          /\ TotalInventory(mockProducts', SkuPositions(mockProducts)) =
                 TotalInventory(mockProducts, SkuPositions(mockProducts))
                 - CatalogQuantity(Created.items, CatalogSkuIds(mockProducts))
    /\ /\ lastOp'.op = "updateSaleOrder"
       /\ KnownCustomer(lastOp'.customer_id)
       /\ lastOp'.id \in StoredIds(mockSaleOrders)
       => lastOp'.error = "none"

\* C10: createSaleOrder and updateSaleOrder do not fail on an item whose
\* sku_id no product has: the order is stored, that item's product_name is
\* "Unknown Product", every other item carries its owning product's name, and
\* the catalog's inventory goes down only by the quantities of the items
\* whose SKU is in the catalog.
C10_UnknownSku == []NamesResolved /\ [][UnknownSkuAccepted]_vars

\* An order has just been created with one line of an unknown SKU and one of
\* a catalog SKU.
C10_Witness ==
    /\ Ok("createSaleOrder")
    /\ LET o == mockSaleOrders[Len(mockSaleOrders)]
       IN  /\ Len(o.items) = 2
           /\ o.items[1].sku_id \notin CatalogSkuIds(mockProducts)
           /\ o.items[1].product_name = "Unknown Product"
           /\ o.items[2].product_name = "Gadget"

\* ------------------------------------------------------------------ C11
\* The stored order the last operation was called for, before and after the
\* step.
TargetBefore == mockSaleOrders[FindOrderIndex(mockSaleOrders, lastOp'.id)]
TargetAfter == mockSaleOrders'[FindOrderIndex(mockSaleOrders', lastOp'.id)]

CreatedAtKept ==
    \A i \in 1..Len(mockSaleOrders) :
        /\ i <= Len(mockSaleOrders')
        /\ mockSaleOrders'[i].id = mockSaleOrders[i].id
        /\ mockSaleOrders'[i].created_at = mockSaleOrders[i].created_at
        /\ mockSaleOrders'[i].last_modified >= mockSaleOrders[i].last_modified

MutationStampsClock ==
    /\ OkStep("createSaleOrder") => Created.last_modified = now'
    /\ OkStep("updateSaleOrder") \/ OkStep("markOrderAsPaid") =>
          TargetAfter.last_modified = now'

TimestampsOrdered ==
    \A i \in 1..Len(mockSaleOrders) :
        /\ mockSaleOrders[i].created_at <= mockSaleOrders[i].last_modified
        /\ mockSaleOrders[i].last_modified <= now

\* C11: every stored order keeps its created_at through every later step;
\* a successful createSaleOrder, updateSaleOrder or markOrderAsPaid leaves the
\* order it wrote with last_modified equal to the clock at that step; no
\* order's last_modified ever decreases, and it is never below the order's
\* created_at nor above the clock.
C11_Timestamps ==
    []TimestampsOrdered /\ [][CreatedAtKept /\ MutationStampsClock]_vars

\* An order created at an earlier millisecond has just been updated: it
\* carries the clock as last_modified and its older created_at.
C11_Witness ==
    /\ Ok("updateSaleOrder")
    /\ LET o == mockSaleOrders[FindOrderIndex(mockSaleOrders, lastOp.id)]
       IN  /\ o.last_modified = now
           /\ o.created_at < o.last_modified

\* ------------------------------------------------------------------ C12
\* C12, as the claim states it: no stored order has an empty items sequence,
\* createSaleOrder and updateSaleOrder having rejected every item list of
\* length 0.
C12_AsStated ==
    \A i \in 1..Len(mockSaleOrders) : Len(mockSaleOrders[i].items) >= 1

\* ------------------------------------------------------------------ C13
\* o is one of the orders of a listing.
Listed(listing, o) == \E k \in 1..Len(listing) : listing[k] = o

PaidChangesOnlyByCall ==
    \A i \in 1..Len(mockSaleOrders) :
        mockSaleOrders'[i].paid # mockSaleOrders[i].paid =>
            /\ lastOp'.error = "none"
            /\ resumed'.call.id = mockSaleOrders[i].id
            /\ IF mockSaleOrders'[i].paid
               THEN \/ resumed'.call.op = "markOrderAsPaid"
                    \/ resumed'.call.op = "updateSaleOrder" /\ resumed'.call.paid
               ELSE resumed'.call.op = "updateSaleOrder" /\ ~resumed'.call.paid

MarkLeavesPaid ==
    resumed'.call.op = "markOrderAsPaid" /\ resumed'.before # <<>> =>
        /\ lastOp'.error = "none"
        /\ TargetAfter.paid

UnpayAccepted ==
    /\ resumed'.call.op = "updateSaleOrder"
    /\ ~resumed'.call.paid
    /\ resumed'.before # <<>>
    /\ KnownCustomer(resumed'.call.customer_id)
    => /\ lastOp'.error = "none"
       /\ ~TargetAfter.paid
       /\ Listed(Listing(mockSaleOrders', "active"), TargetAfter)
       /\ ~Listed(Listing(mockSaleOrders', "completed"), TargetAfter)

\* C13: a stored order's paid flag goes from false to true only in the step
\* of a successful markOrderAsPaid for its id or of a successful
\* updateSaleOrder for its id called with paid = true, and from true to false
\* only in the step of a successful updateSaleOrder for its id called with
\* paid = false; markOrderAsPaid for a stored id leaves the order paid;
\* updateSaleOrder with paid = false for a stored order (paid or not) and a
\* known customer succeeds and leaves the order unpaid, in the active listing
\* and out of the completed one.
C13_PaidTransitions ==
    [][PaidChangesOnlyByCall /\ MarkLeavesPaid /\ UnpayAccepted]_vars

\* A paid order has just been updated with paid = false: it is unpaid again.
C13_Witness ==
    /\ Ok("updateSaleOrder")
    /\ resumed.before # <<>>
    /\ resumed.before[1].paid
    /\ ~resumed.call.paid
    /\ ~mockSaleOrders[FindOrderIndex(mockSaleOrders, resumed.call.id)].paid

\* ------------------------------------------------------------------ C14
IdsOnlyGrow == StoredIds(mockSaleOrders) \subseteq StoredIds(mockSaleOrders')

CreateAppendsOne ==
    OkStep("createSaleOrder") =>
        /\ Len(mockSaleOrders') = Len(mockSaleOrders) + 1
        /\ SubSeq(mockSaleOrders', 1, Len(mockSaleOrders)) = mockSaleOrders

ReplacesInPlace ==
    OkStep("updateSaleOrder") \/ OkStep("markOrderAsPaid") =>
        LET k == FindOrderIndex(mockSaleOrders, lastOp'.id)
        IN  /\ k # 0
            /\ Len(mockSaleOrders') = Len(mockSaleOrders)
            /\ mockSaleOrders'[k].id = lastOp'.id
            /\ \A i \in 1..Len(mockSaleOrders) :
                   i # k => mockSaleOrders'[i] = mockSaleOrders[i]

OnlyMutationsWrite ==
    ~(OkStep("createSaleOrder") \/ OkStep("updateSaleOrder")
        \/ OkStep("markOrderAsPaid"))
    => mockSaleOrders' = mockSaleOrders

\* C14: no step removes a stored order id; a successful createSaleOrder
\* leaves the repository as it was with exactly one order appended; a
\* successful updateSaleOrder or markOrderAsPaid keeps the number of orders,
\* leaves the target's id at the target's position and every other order as
\* it was; every other step leaves the repository as it was.
C14_NeverDeleted ==
    [][IdsOnlyGrow /\ CreateAppendsOne /\ ReplacesInPlace
         /\ OnlyMutationsWrite]_vars

\* The first of two stored orders has just been updated and is still the
\* first, modified after the second was.
C14_Witness ==
    /\ Ok("updateSaleOrder")
    /\ Len(mockSaleOrders) = 2
    /\ mockSaleOrders[1].id = lastOp.id
    /\ mockSaleOrders[1].last_modified > mockSaleOrders[2].last_modified

\* ------------------------------------------------------------------ C15
\* The units of a SKU the items of all stored orders ask for.
RECURSIVE OrderedQuantity(_, _)
OrderedQuantity(orders, sku_id) ==
    IF orders = <<>> THEN 0
    ELSE QuantityOf(Head(orders).items, sku_id)
         + OrderedQuantity(Tail(orders), sku_id)

\* Every call made so far has stored an order, so every one of them was a
\* createSaleOrder and has resumed: the orders have distinct ids and the
\* catalog is the seeded one less everything they ordered.
AllCreatesAccounted ==
    Len(mockSaleOrders) = issued =>
        /\ IdsUnique
        /\ \A pk \in SkuPositions(mockProducts) :
               InventoryAt(mockProducts, pk) =
                   InventoryAt(SeedProducts, pk)
                   - OrderedQuantity(mockSaleOrders,
                                     mockProducts[pk[1]].sku[pk[2]].id)

CreateRunsWhole ==
    resumed'.call.op = "createSaleOrder"
    /\ KnownCustomer(resumed'.call.customer_id) =>
        /\ lastOp'.error = "none"
        /\ Len(mockSaleOrders') = Len(mockSaleOrders) + 1
        /\ SubSeq(mockSaleOrders', 1, Len(mockSaleOrders)) = mockSaleOrders
        /\ Created.id \notin StoredIds(mockSaleOrders)
        /\ \A pk \in SkuPositions(mockProducts) :
               InventoryAt(mockProducts', pk) =
                   InventoryAt(mockProducts, pk)
                   - QuantityOf(resumed'.call.items,
                                mockProducts[pk[1]].sku[pk[2]].id)

\* C15: with calls in flight together, each createSaleOrder for a known
\* customer that leaves its delay stores its order after all the orders
\* stored by then, under an id none of them has, and lowers every SKU from
\* the quantity it holds at that moment by what the call's items ask of it;
\* so when all the calls made were creates and have resumed, in whatever
\* order, the stored ids are distinct and the catalog is the seeded one less
\* the quantities of all their items.
C15_ConcurrentCreates ==
    []AllCreatesAccounted /\ [][CreateRunsWhole]_vars

\* Two creates of 2 units of SKU 21 have resumed, the second of them made
\* before the first had stored its order: two orders are stored and the SKU,
\* seeded with 3, is at -1.
C15_Witness ==
    /\ Ok("createSaleOrder")
    /\ issued = 2
    /\ inFlight = {}
    /\ resumed.call.token = 2
    /\ resumed.call.at < mockSaleOrders[1].created_at
    /\ Len(mockSaleOrders) = 2
    /\ mockSaleOrders[1].id # mockSaleOrders[2].id
    /\ QuantityOf(mockSaleOrders[1].items, 21) = 2
    /\ QuantityOf(mockSaleOrders[2].items, 21) = 2
    /\ \E pk \in SkuPositions(mockProducts) :
          /\ mockProducts[pk[1]].sku[pk[2]].id = 21
          /\ InventoryAt(mockProducts, pk) = -1

\* ------------------------------------------------------------------ C16
CreatedStampsEqual ==
    OkStep("createSaleOrder") => Created.created_at = Created.last_modified

\* C16, as the claim states it: the order a successful createSaleOrder has
\* just stored has created_at equal to last_modified.
C16_AsStated == [][CreatedStampsEqual]_vars

\* ------------------------------------------------------------------ C17
MarkPaidStampStrictlyLater ==
    OkStep("markOrderAsPaid") =>
        TargetAfter.last_modified > TargetBefore.last_modified

\* C17, as the claim states it: every successful markOrderAsPaid leaves the
\* order with a last_modified strictly greater than the one it had before.
C17_AsStated == [][MarkPaidStampStrictlyLater]_vars

MarkPaidStampNotEarlier ==
    resumed'.call.op = "markOrderAsPaid" /\ resumed'.before # <<>> =>
        /\ lastOp'.error = "none"
        /\ TargetAfter.last_modified = now'
        /\ TargetAfter.last_modified >= resumed'.before[1].last_modified
        /\ resumed'.call.at >= resumed'.before[1].last_modified =>
              TargetAfter.last_modified > resumed'.before[1].last_modified

\* C17, amended: a successful markOrderAsPaid leaves the order with the clock
\* of the step as last_modified, which is never less than the value before;
\* it is strictly greater when the call was made no earlier than that value,
\* that is, after the create or update that last touched the order had
\* returned.
C17_MarkPaidStamp == [][MarkPaidStampNotEarlier]_vars

\* A mark-paid made after the order was last touched has just resumed: the
\* order's last_modified has moved forward.
C17_Witness ==
    /\ Ok("markOrderAsPaid")
    /\ resumed.before # <<>>
    /\ resumed.call.at >= resumed.before[1].last_modified
    /\ mockSaleOrders[FindOrderIndex(mockSaleOrders, resumed.call.id)].last_modified
           > resumed.before[1].last_modified

\* ------------------------------------------------------------------ C18
\* An item of the order just created asks for more of the SKU at pk than the
\* catalog held before the step.
AsksBeyondStock(pk) ==
    \E k \in 1..Len(Created.items) :
        /\ Created.items[k].sku_id = mockProducts[pk[1]].sku[pk[2]].id
        /\ Created.items[k].quantity > InventoryAt(mockProducts, pk)

NoStockCheck ==
    lastOp'.op = "createSaleOrder" /\ KnownCustomer(lastOp'.customer_id) =>
        /\ lastOp'.error = "none"
        /\ Len(mockSaleOrders') = Len(mockSaleOrders) + 1
        /\ \A pk \in SkuPositions(mockProducts) :
               AsksBeyondStock(pk) =>
                   /\ InventoryAt(mockProducts', pk) =
                          InventoryAt(mockProducts, pk)
                          - QuantityOf(Created.items,
                                       mockProducts[pk[1]].sku[pk[2]].id)
                   /\ InventoryAt(mockProducts', pk) < 0

\* C18: createSaleOrder for a known customer never fails, whatever the
\* catalog holds; when an item's quantity exceeds the quantity_in_inventory
\* its SKU had before the call, the order is stored all the same and the SKU
\* is left with the negative number inventory minus the quantity ordered.
C18_NoStockCheck == [][NoStockCheck]_vars

\* The second order has just been created with a single line of 2 units of
\* SKU 21, of which 1 was left: the catalog now holds -1.
C18_Witness ==
    /\ Ok("createSaleOrder")
    /\ Len(mockSaleOrders) = 2
    /\ Len(mockSaleOrders[2].items) = 1
    /\ mockSaleOrders[2].items[1].sku_id = 21
    /\ mockSaleOrders[1].items = mockSaleOrders[2].items
    /\ \E pk \in SkuPositions(mockProducts) :
          /\ mockProducts[pk[1]].sku[pk[2]].id = 21
          /\ InventoryAt(mockProducts, pk) = -1

\* ------------------------------------------------------------------ C19
OrderCheckedFirst ==
    lastOp'.op = "updateSaleOrder" =>
        /\ lastOp'.id \notin StoredIds(mockSaleOrders)
           /\ ~KnownCustomer(lastOp'.customer_id)
           => lastOp'.error = "Order not found"
        /\ lastOp'.error = "Customer not found" =>
              /\ lastOp'.id \in StoredIds(mockSaleOrders)
              /\ ~KnownCustomer(lastOp'.customer_id)

\* C19: an updateSaleOrder called with an id no order has and a customer_id
\* no customer has fails with "Order not found"; an updateSaleOrder fails
\* with "Customer not found" only when the order is stored (and the customer
\* is not).
C19_OrderBeforeCustomer == [][OrderCheckedFirst]_vars

\* An update has just failed with "Order not found" though its customer_id
\* is unknown too, while another order is stored.
C19_Witness ==
    /\ lastOp.op = "updateSaleOrder"
    /\ lastOp.error = "Order not found"
    /\ lastOp.id \notin StoredIds(mockSaleOrders)
    /\ ~KnownCustomer(lastOp.customer_id)
    /\ Len(mockSaleOrders) = 1

\* ------------------------------------------------------------------ C20
PaidStaysPaid ==
    \A i \in 1..Len(mockSaleOrders) :
        mockSaleOrders[i].paid => mockSaleOrders'[i].paid

\* C20, as the claim states it: with the service driven through the
\* Dashboard only, no step takes a paid order back to unpaid.
C20_AsStated == [][PaidStaysPaid]_vars
====
